---- MODULE Spec2Model ----
(***************************************************************************)
(* Model of src/api_to_csv.py: APIDataPipeline (extract / transform /     *)
(* load / run_pipeline) and the command-line entry point main().          *)
(*                                                                         *)
(* Two specifications:                                                     *)
(*   SpecT  transform() as a function of its input: InitT draws the list  *)
(*          of dictionaries extract() returned from a bounded set, then   *)
(*          run_pipeline goes on with transform() and load().             *)
(*   Spec   main(): repeated runs of the pipeline against an environment  *)
(*          (HTTP server, filesystem, wall clock).                        *)
(*                                                                         *)
(* Library calls are modelled by what the library does:                    *)
(*   pd.DataFrame(list of dicts)  union of the keys in first-seen order,  *)
(*                                absent keys and None become NaN          *)
(*   DataFrame.drop_duplicates()  returns a copy when the frame is empty  *)
(*                                (no rows or no columns); otherwise      *)
(*                                keeps the first of equal rows, NaN      *)
(*                                being equal to NaN                      *)
(*   DataFrame.fillna(v)          replaces NaN by v                       *)
(*   df[c] = scalar               overwrites column c when present,       *)
(*                                appends it otherwise                    *)
(*   Response.raise_for_status()  raises HTTPError for 400 <= status < 600*)
(*   os.makedirs(p)               creates p and every missing ancestor    *)
(* All cell values are text: numeric dtype inference is not modelled.     *)
(***************************************************************************)
EXTENDS Integers, Sequences, FiniteSets, TLC

VARIABLES
    pc,          \* position of the current run in main() / run_pipeline()
    run,         \* number of calls of main() started so far
    args,        \* parsed command line: [output_dir, output_file]
    response,    \* what requests.get() produced in this run
    raw_data,    \* run_pipeline: raw_data
    df,          \* run_pipeline: transformed_data
    output_path, \* run_pipeline: output_path
    error,       \* the exception in flight, NoError when none
    stage,       \* the stages entered in this run, in order ("Fetching data", ...)
    stdout,      \* lines printed by main() in this run
    exit,        \* value returned by main() in this run, NoExit before it returns
    clock,       \* wall clock (datetime.now()), in ticks
    dirs,        \* filesystem: the directories that exist
    files        \* filesystem: path -> [lines, mtime]

vars == << pc, run, args, response, raw_data, df, output_path, error, stage,
           stdout, exit, clock, dirs, files >>

-----------------------------------------------------------------------------
(* Bounds *)

MaxRows == 2

MaxRuns == 2

MaxClock == 3

TicksPerSecond == 2

-----------------------------------------------------------------------------
(* JSON values and records *)

JNull == "<null>"

NaN == "<NaN>"

Sentinel == "N/A"

TimestampColumn == "extraction_timestamp"

\* Field names of the modelled API, in the order a JSON object lists them.
KeyOrder == << "a", "b", TimestampColumn >>

Keys == { KeyOrder[i] : i \in 1..Len(KeyOrder) }

\* The values a field takes in the modelled responses.
JVals(k) ==
    IF k = "a" THEN { JNull, Sentinel, "x" }
    ELSE IF k = "b" THEN { JNull, Sentinel }
    ELSE { JNull, "x" }

\* A JSON object: a mapping from some of the field names to values.
Records ==
    UNION { { r \in [ S -> { JNull, Sentinel, "x" } ] : \A k \in S : r[k] \in JVals(k) } :
            S \in SUBSET Keys }

RECURSIVE SeqsUpTo(_, _)
SeqsUpTo(S, n) ==
    IF n = 0 THEN { << >> }
    ELSE LET shorter == SeqsUpTo(S, n - 1)
         IN  shorter \cup { Append(s, x) : s \in { t \in shorter : Len(t) = n - 1 }, x \in S }

RecordSets == SeqsUpTo(Records, MaxRows)

Range(s) == { s[i] : i \in 1..Len(s) }

RECURSIVE FilterSeq(_, _)
\* The subsequence of s of the elements in S.
FilterSeq(s, S) ==
    IF s = << >> THEN << >>
    ELSE IF s[1] \in S THEN << s[1] >> \o FilterSeq(Tail(s), S)
         ELSE FilterSeq(Tail(s), S)

-----------------------------------------------------------------------------
(* pandas *)

RECURSIVE FirstSeen(_, _)
\* Column labels of pd.DataFrame(data): the keys of the records, each at its
\* first appearance.
FirstSeen(data, seen) ==
    IF data = << >> THEN seen
    ELSE LET new == FilterSeq(KeyOrder, DOMAIN data[1] \ Range(seen))
         IN  FirstSeen(Tail(data), seen \o new)

\* pd.DataFrame(data) for a list of dictionaries.
DataFrame(data) ==
    LET cols == FirstSeen(data, << >>)
    IN  [ columns |-> cols,
          rows |-> [ i \in 1..Len(data) |->
                     [ c \in Range(cols) |->
                         IF c \in DOMAIN data[i] /\ data[i][c] # JNull
                         THEN data[i][c] ELSE NaN ] ] ]

\* DataFrame.empty: any axis of length 0.
Empty(d) == Len(d.rows) = 0 \/ Len(d.columns) = 0

\* DataFrame.duplicated(keep="first") at row i.
Duplicated(d, i) == \E j \in 1..(i - 1) : d.rows[j] = d.rows[i]

RECURSIVE KeepRows(_, _, _)
KeepRows(d, i, acc) ==
    IF i > Len(d.rows) THEN acc
    ELSE KeepRows(d, i + 1, IF Duplicated(d, i) THEN acc ELSE Append(acc, d.rows[i]))

\* DataFrame.drop_duplicates().
DropDuplicates(d) ==
    IF Empty(d) THEN d
    ELSE [ d EXCEPT !.rows = KeepRows(d, 1, << >>) ]

\* DataFrame.fillna(value).
Fillna(d, value) ==
    [ d EXCEPT !.rows = [ i \in 1..Len(d.rows) |->
        [ c \in DOMAIN d.rows[i] |->
            IF d.rows[i][c] = NaN THEN value ELSE d.rows[i][c] ] ] ]

\* df[col] = value, value a scalar.
SetColumn(d, col, value) ==
    [ columns |-> IF col \in Range(d.columns) THEN d.columns
                  ELSE Append(d.columns, col),
      rows |-> [ i \in 1..Len(d.rows) |->
                 [ c \in Range(d.columns) \cup { col } |->
                     IF c = col THEN value ELSE d.rows[i][c] ] ] ]

\* The lines DataFrame.to_csv(path, index=False) writes: the header, then one
\* line per row, the cells in column order; NaN is written as the empty cell.
ToCsv(d) ==
    << d.columns >> \o
    [ i \in 1..Len(d.rows) |->
        [ k \in 1..Len(d.columns) |->
            LET v == d.rows[i][d.columns[k]]
            IN  IF v = NaN THEN "" ELSE v ] ]

-----------------------------------------------------------------------------
(* datetime *)

\* datetime.now() truncated to whole seconds, which is what both strftime
\* patterns keep of it.
Seconds(t) == t \div TicksPerSecond

\* datetime.now().strftime("%Y-%m-%d %H:%M:%S")
StampText(t) == "T" \o ToString(Seconds(t))

\* The file name without its seconds ('%Y%m%d_%H%M').
DefaultFilenameToTheMinute(t) == "data_extract_" \o ToString(Seconds(t) \div 60) \o ".csv"

\* f"data_extract_{datetime.now().strftime('%Y%m%d_%H%M%S')}.csv"
DefaultFilename(t) == "data_extract_" \o ToString(Seconds(t)) \o ".csv"

-----------------------------------------------------------------------------
(* Parsed JSON bodies *)

\* A response body: kind is what the body parses to ("notjson" when it does
\* not parse), data the objects of an array of objects, items the elements
\* of an array of scalars.
Body(kind, data, items) == [ kind |-> kind, data |-> data, items |-> items ]

RecordsBody(data) == Body("records", data, << >>)

\* The bodies the modelled server can answer with.
Bodies ==
    { Body(k, << >>, << >>) : k \in { "notjson", "number", "string", "object" } }
    \cup { Body("scalars", << >>, << "x", "x" >>) }
    \cup { RecordsBody(d) : d \in
            { << >>,
              << [ a |-> "x" ] >>,
              << [ a |-> "x" ], [ a |-> "x" ], [ a |-> "y", b |-> JNull ] >> } }

\* pd.DataFrame(data) for what response.json() returned.  A list of scalars
\* becomes one column labelled 0; a str, or a dict of scalars, raises
\* ValueError.
CanFrame(data) == data.kind \in { "records", "scalars" }

PdDataFrame(data) ==
    IF data.kind = "records" THEN DataFrame(data.data)
    ELSE [ columns |-> << "0" >>,
           rows |-> [ i \in 1..Len(data.items) |-> [ c \in { "0" } |-> data.items[i] ] ] ]

-----------------------------------------------------------------------------
(* APIDataPipeline.transform *)

Transform(data, t) ==
    LET frame == PdDataFrame(data)
        df_deduplicated == DropDuplicates(frame)
        df_clean == Fillna(df_deduplicated, Sentinel)
    IN  SetColumn(df_clean, TimestampColumn, StampText(t))

-----------------------------------------------------------------------------
(* Filesystem *)

None == "<None>"

NoError == "<NoError>"

NoExit == -1

NoFrame == [ columns |-> << >>, rows |-> << >> ]

NoPath == << >>

NoBody == Body("none", << >>, << >>)

NoResponse == [ ok |-> FALSE, status |-> 0, body |-> NoBody ]

NoArgs == [ output_dir |-> << >>, output_file |-> None ]

OutputDirs == { << "data", "posts" >> }

OutputFiles == { None, "out.csv" }

\* A path and its ancestors.
Ancestors(p) == { SubSeq(p, 1, k) : k \in 1..Len(p) }

IsUnder(p, d) == Len(p) >= Len(d) /\ SubSeq(p, 1, Len(d)) = d

\* os.path.exists(p)
Exists(ds, p) == p \in ds

\* os.mkdir(p) in the place of os.makedirs(p): the directory alone.
MakedirsLeafOnly(ds, p) == ds \cup { p }

\* os.makedirs(p)
Makedirs(ds, p) == ds \cup Ancestors(p)

\* os.path.join(output_dir, filename), filename relative
Join(d, filename) == Append(d, filename)

\* The parent directory of a file path.
Parent(p) == SubSeq(p, 1, Len(p) - 1)

-----------------------------------------------------------------------------
(* requests *)

\* What requests.get() can produce: a transport failure, or a response with
\* a status and a body.
Responses ==
    { [ ok |-> FALSE, status |-> 0, body |-> NoBody ] }
    \cup { [ ok |-> TRUE, status |-> s, body |-> b ] : s \in { 200 }, b \in Bodies }
    \cup { [ ok |-> TRUE, status |-> s, body |-> b ] : s \in { 201, 404, 500 }, b \in
             { Body("notjson", << >>, << >>), RecordsBody(<< [ a |-> "x" ] >>) } }
    \cup { [ ok |-> TRUE, status |-> 304, body |-> Body("notjson", << >>, << >>) ] }

\* Only the server errors raise.
RaisesForServerErrorOnly(status) == 500 <= status /\ status < 600

\* Response.raise_for_status() raises HTTPError.
RaisesForStatus(status) == 400 <= status /\ status < 600

\* The exception extract() leaves with for response r, NoError when it
\* returns: ConnectionError from requests.get, HTTPError from
\* raise_for_status, JSONDecodeError from response.json(), TypeError from
\* len(data) on a number.
ExtractError(r) ==
    IF ~r.ok THEN "ConnectionError"
    ELSE IF RaisesForStatus(r.status) THEN "HTTPError"
    ELSE IF r.body.kind = "notjson" THEN "JSONDecodeError"
    ELSE IF r.body.kind = "number" THEN "TypeError"
    ELSE NoError

-----------------------------------------------------------------------------
(* main *)

\* main() returning 0 from its except branch too.
MainReturnAlwaysZero(failed) == 0

\* The value main() returns.
MainReturn(failed) == IF failed THEN 1 ELSE 0

SuccessLine(path) == << "Data successfully saved to: ", path >>

TypeOK ==
    /\ pc \in { "idle", "constructed", "extracted", "transformed", "loaded",
                "failed", "returned" }
    /\ run \in 0..MaxRuns
    /\ clock \in 0..MaxClock
    /\ exit \in { NoExit, 0, 1 }

Init ==
    /\ pc = "idle"
    /\ run = 0
    /\ args = NoArgs
    /\ response = NoResponse
    /\ raw_data = NoBody
    /\ df = NoFrame
    /\ output_path = NoPath
    /\ error = NoError
    /\ stage = << >>
    /\ stdout = << >>
    /\ exit = NoExit
    /\ clock = 0
    /\ dirs \in { {}, { << "data" >> } }
    /\ files = << >>

\* main() up to the end of APIDataPipeline.__init__: parse the arguments,
\* create the output directory when it does not exist.  os.makedirs may fail
\* (permissions), which main() catches like any other failure.
Construct ==
    /\ pc \in { "idle", "returned" }
    /\ run < MaxRuns
    /\ run' = run + 1
    /\ \E d \in OutputDirs, f \in OutputFiles :
         args' = [ output_dir |-> d, output_file |-> f ]
    /\ \/ /\ Exists(dirs, args'.output_dir)
          /\ dirs' = dirs
          /\ pc' = "constructed"
          /\ error' = NoError
       \/ /\ ~Exists(dirs, args'.output_dir)
          /\ dirs' = Makedirs(dirs, args'.output_dir)
          /\ pc' = "constructed"
          /\ error' = NoError
       \/ /\ ~Exists(dirs, args'.output_dir)
          /\ dirs' = dirs
          /\ pc' = "failed"
          /\ error' = "OSError"
    /\ response' = NoResponse
    /\ raw_data' = NoBody
    /\ df' = NoFrame
    /\ output_path' = NoPath
    /\ stage' = << >>
    /\ stdout' = << >>
    /\ exit' = NoExit
    /\ UNCHANGED << clock, files >>

\* run_pipeline: raw_data = self.extract(params)
Extract ==
    /\ pc = "constructed"
    /\ \E r \in Responses :
         /\ response' = r
         /\ error' = ExtractError(r)
         /\ IF ExtractError(r) = NoError
            THEN pc' = "extracted" /\ raw_data' = r.body
            ELSE pc' = "failed" /\ raw_data' = raw_data
    /\ stage' = Append(stage, "extract")
    /\ UNCHANGED << run, args, df, output_path, stdout, exit, clock, dirs, files >>

\* run_pipeline: transformed_data = self.transform(raw_data)
TransformStep ==
    /\ pc = "extracted"
    /\ IF CanFrame(raw_data)
       THEN pc' = "transformed" /\ df' = Transform(raw_data, clock) /\ error' = NoError
       ELSE pc' = "failed" /\ df' = df /\ error' = "ValueError"
    /\ stage' = Append(stage, "transform")
    /\ UNCHANGED << run, args, response, raw_data, output_path, stdout, exit, clock,
                    dirs, files >>

\* The file a call of load() leaves at path: all lines, or, when the write
\* fails under way, the first k of them.
WrittenFile(lines, k, t) == [ lines |-> SubSeq(lines, 1, k), mtime |-> t ]

PutFile(fs, path, file) ==
    [ p \in DOMAIN fs \cup { path } |-> IF p = path THEN file ELSE fs[p] ]

\* The file name load() uses.
LoadFilename(filename, t) == IF filename = None THEN DefaultFilename(t) ELSE filename

\* run_pipeline: output_path = self.load(transformed_data, filename)
\* df.to_csv raises OSError when the directory does not exist or the file
\* cannot be opened (nothing is written), or while it writes (what was
\* written stays).
Load ==
    /\ pc = "transformed"
    /\ stage' = Append(stage, "load")
    /\ LET filename == LoadFilename(args.output_file, clock)
           filepath == Join(args.output_dir, filename)
           lines == ToCsv(df)
       IN  \/ /\ ~Exists(dirs, Parent(filepath))
              /\ pc' = "failed" /\ error' = "OSError"
              /\ UNCHANGED << files, output_path >>
           \/ /\ Exists(dirs, Parent(filepath))
              /\ pc' = "failed" /\ error' = "OSError"
              /\ UNCHANGED << files, output_path >>
           \/ /\ Exists(dirs, Parent(filepath))
              /\ \E k \in 0..(Len(lines) - 1) :
                   files' = PutFile(files, filepath, WrittenFile(lines, k, clock))
              /\ pc' = "failed" /\ error' = "OSError"
              /\ UNCHANGED output_path
           \/ /\ Exists(dirs, Parent(filepath))
              /\ files' = PutFile(files, filepath, WrittenFile(lines, Len(lines), clock))
              /\ output_path' = filepath
              /\ pc' = "loaded" /\ error' = NoError
    /\ UNCHANGED << run, args, response, raw_data, df, stdout, exit, clock, dirs >>

\* main(): print the status line, return 0.
ReturnOk ==
    /\ pc = "loaded"
    /\ stdout' = Append(stdout, SuccessLine(output_path))
    /\ exit' = MainReturn(FALSE)
    /\ pc' = "returned"
    /\ UNCHANGED << run, args, response, raw_data, df, output_path, error, stage,
                    clock, dirs, files >>

\* main(): except Exception: log the failure, return 1.
ReturnFailed ==
    /\ pc = "failed"
    /\ exit' = MainReturn(TRUE)
    /\ pc' = "returned"
    /\ UNCHANGED << run, args, response, raw_data, df, output_path, error, stage,
                    stdout, clock, dirs, files >>

\* Environment: time passes.  The clock is read by transform() and by load()
\* only, so the time that passed since the last reading is accounted for just
\* before one of them reads it.
Tick ==
    /\ clock < MaxClock
    /\ pc \in { "extracted", "transformed" }
    /\ clock' = clock + 1
    /\ UNCHANGED << pc, run, args, response, raw_data, df, output_path, error, stage,
                    stdout, exit, dirs, files >>

\* Environment: the output directory is removed, with what is in it, while a
\* pipeline object exists.
RemoveDir ==
    /\ pc \in { "constructed", "transformed" }
    /\ Exists(dirs, args.output_dir)
    /\ dirs' = { d \in dirs : ~IsUnder(d, args.output_dir) }
    /\ files' = [ p \in { q \in DOMAIN files : ~IsUnder(q, args.output_dir) } |-> files[p] ]
    /\ UNCHANGED << pc, run, args, response, raw_data, df, output_path, error, stage,
                    stdout, exit, clock >>

Next ==
    \/ Construct
    \/ Extract
    \/ TransformStep
    \/ Load
    \/ ReturnOk
    \/ ReturnFailed
    \/ Tick
    \/ RemoveDir

Spec == Init /\ [][Next]_vars

-----------------------------------------------------------------------------
(* transform() and load() on every record set within the bounds *)

\* run_pipeline after extract() returned the record set of a 200 response,
\* the output directory in place.
InitT ==
    /\ pc = "extracted"
    /\ run = 1
    /\ args = [ output_dir |-> << "data", "posts" >>, output_file |-> "out.csv" ]
    /\ raw_data \in { RecordsBody(d) : d \in RecordSets }
    /\ response = [ ok |-> TRUE, status |-> 200, body |-> raw_data ]
    /\ df = NoFrame
    /\ output_path = NoPath
    /\ error = NoError
    /\ stage = << "extract" >>
    /\ stdout = << >>
    /\ exit = NoExit
    /\ clock = 0
    /\ dirs = Makedirs({}, << "data", "posts" >>)
    /\ files = << >>

NextT ==
    \/ TransformStep
    \/ Load

SpecT == InitT /\ [][NextT]_vars

-----------------------------------------------------------------------------
(* Properties *)

IsPrefix(s, t) == Len(s) <= Len(t) /\ SubSeq(t, 1, Len(s)) = s

Stages == << "extract", "transform", "load" >>

\* The table pd.DataFrame builds from the records extract() returned.
InputFrame == DataFrame(raw_data.data)

\* The cell fillna leaves for cell v.
Filled(v) == IF v = NaN THEN Sentinel ELSE v

\* The run has a transformed record set in hand.
HasFrame == pc \in { "transformed", "loaded" } \/ (pc = "failed" /\ Len(stage) = 3)

\* C1: the record set transform() returns, and run_pipeline() passes to
\* load(), has no two rows that are equal on every field, equality taken on
\* the final values (after filling).  Stated for the record sets with at
\* least one field; C2 is about those without.
C1_NoEqualRows ==
    (HasFrame /\ raw_data.kind = "records" /\ Len(InputFrame.columns) > 0) =>
        \A i, j \in 1..Len(df.rows) : i # j => df.rows[i] # df.rows[j]

\* C2: the output of transform() is the subsequence of the first occurrences
\* of the input rows: the k-th output row is the k-th input row that no
\* earlier row equals (compared on the input's columns, after filling), and
\* there are as many output rows as first occurrences.
C2_FirstOccurrences ==
    (HasFrame /\ raw_data.kind = "records") =>
        LET rows == InputFrame.rows
            firsts == { i \in 1..Len(rows) : \A j \in 1..(i - 1) : rows[j] # rows[i] }
        IN  /\ Len(df.rows) = Cardinality(firsts)
            /\ \A i \in firsts :
                 LET k == Cardinality({ j \in firsts : j <= i })
                 IN  \A c \in Range(InputFrame.columns) \ { TimestampColumn } :
                        df.rows[k][c] = Filled(rows[i][c])

\* C3: in every row of the output of transform(), every column of the union
\* schema holds "N/A" where the record had null or no such key, and the
\* record's own value otherwise; the CSV line load() writes for the row holds
\* the same text in that column.
C3_SentinelInEveryMissingCell ==
    (HasFrame /\ raw_data.kind = "records") =>
        LET kept == DropDuplicates(InputFrame)
        IN  /\ Len(df.rows) = Len(kept.rows)
            /\ \A i \in 1..Len(df.rows) : \A c \in Range(kept.columns) :
                  /\ df.rows[i][c] = Filled(kept.rows[i][c])
                  /\ df.rows[i][c] # ""
            /\ (pc = "loaded" =>
                  \A i \in 1..Len(kept.rows) : \A k \in 1..Len(kept.columns) :
                     files[output_path].lines[i + 1][k]
                        = Filled(kept.rows[i][kept.columns[k]]))

\* C4: every row of the output of transform() has the columns of the input's
\* union schema and exactly one more, the extraction timestamp; the input's
\* columns keep their (filled) values; the timestamp is the same in all rows.
C4_ExactlyOneMoreField ==
    (HasFrame /\ raw_data.kind = "records") =>
        LET kept == DropDuplicates(InputFrame)
        IN  /\ Len(df.columns) = Len(kept.columns) + 1
            /\ Range(df.columns) = Range(kept.columns) \cup { TimestampColumn }
            /\ \A i \in 1..Len(df.rows) :
                  /\ DOMAIN df.rows[i] = Range(df.columns)
                  /\ \A c \in Range(kept.columns) : df.rows[i][c] = Filled(kept.rows[i][c])
                  /\ df.rows[i][TimestampColumn] = df.rows[1][TimestampColumn]

\* The run is past extract().
PastExtract == pc \in { "extracted", "transformed", "loaded", "failed", "returned" } /\ response.ok

\* C5 as stated: a response with a status other than 200 makes the run fail with
\* the HTTP-status error in extract(), and load() is not reached.
C5_AnyNon200Fails ==
    (PastExtract /\ response.status # 200) =>
        /\ pc \in { "failed", "returned" }
        /\ error = "HTTPError"
        /\ stage = << "extract" >>

\* C5 as amended: a response with an error status (400..599) makes the run fail
\* with the HTTP-status error in extract(); transform() and load() are not
\* reached and main() does not return 0.
C5_ErrorStatusFails ==
    (PastExtract /\ 400 <= response.status /\ response.status <= 599) =>
        /\ pc \in { "failed", "returned" }
        /\ error = "HTTPError"
        /\ stage = << "extract" >>
        /\ exit \in { NoExit, 1 }

C5_Witness ==
    /\ pc = "returned"
    /\ response.ok /\ response.status = 404
    /\ error = "HTTPError"
    /\ exit = 1

\* C6: a successful response whose body is not a JSON array of objects makes
\* extract() fail: the run fails in extract() and neither transform() nor
\* load() is entered.
C6_NonRecordBodyFailsInExtract ==
    (PastExtract /\ ~RaisesForStatus(response.status) /\ response.body.kind # "records") =>
        /\ pc \in { "failed", "returned" }
        /\ error # NoError
        /\ stage = << "extract" >>

\* C7: the stages run in the order extract, transform, load, each at most
\* once; a stage that fails ends the run (no later stage is entered, the
\* failure is the one main() sees), and a step that fails leaves the files
\* as they were: no file, complete or partial, is left by it.
C7_FailureLeavesNoFile ==
    [][ /\ IsPrefix(stage', Stages)
        /\ (pc # "failed" /\ pc' = "failed") => (error' # NoError /\ files' = files)
        /\ (pc = "failed" /\ pc' # "failed") => (pc' = "returned" /\ error' = error /\ stage' = stage)
      ]_vars

\* A call of load(): the step from "transformed" to its result.
LoadCall == pc = "transformed" /\ pc' \in { "loaded", "failed" }

\* C8 as stated: after every call of load() the output directory exists (load()
\* created it when it was absent), and a successful load() returns the output
\* directory joined with the file name.
C8_LoadEnsuresDirectory ==
    [][ LoadCall =>
          /\ Ancestors(args.output_dir) \subseteq dirs'
          /\ (pc' = "loaded" =>
                output_path' = Join(args.output_dir, LoadFilename(args.output_file, clock)))
      ]_vars

\* C8 as amended: the constructor ensures that the output directory exists,
\* creating it with its missing ancestors; load() creates no directory: when
\* the output directory is absent at the time of the call it fails with an
\* OSError and writes nothing; a successful load() has written the file it
\* returns the path of, which is the output directory joined with the file name.
C8_ConstructorEnsuresDirectory ==
    [][ /\ (pc' = "constructed" /\ pc # "constructed") =>
               Ancestors(args'.output_dir) \subseteq dirs'
        /\ LoadCall =>
               /\ dirs' = dirs
               /\ ~Exists(dirs, args.output_dir) =>
                     (pc' = "failed" /\ error' = "OSError" /\ files' = files)
               /\ pc' = "loaded" =>
                     /\ output_path' = Join(args.output_dir, LoadFilename(args.output_file, clock))
                     /\ output_path' \in DOMAIN files'
                     /\ Exists(dirs', Parent(output_path'))
      ]_vars

C8_Witness ==
    /\ pc = "failed"
    /\ stage = Stages
    /\ error = "OSError"
    /\ ~Exists(dirs, args.output_dir)

\* A file that carries a name load() generates.
IsDefaultName(p) == \E t \in 0..MaxClock : p = Join(Parent(p), DefaultFilename(t))

\* C9: a load() without a file name that comes one second or more after an
\* earlier load() wrote a file under a generated name uses another name, and
\* leaves that earlier file as it is.
C9_DistinctDefaultNames ==
    [][ (LoadCall /\ pc' = "loaded" /\ args.output_file = None) =>
          \A p \in DOMAIN files :
             (IsDefaultName(p) /\ clock - files[p].mtime >= TicksPerSecond) =>
                 /\ output_path' # p
                 /\ p \in DOMAIN files'
                 /\ files'[p] = files[p]
      ]_vars

C9_Witness ==
    /\ pc = "loaded"
    /\ args.output_file = None
    /\ \E p \in DOMAIN files :
          /\ p # output_path
          /\ IsDefaultName(p)
          /\ Parent(p) = Parent(output_path)
          /\ files[output_path].mtime - files[p].mtime >= TicksPerSecond

\* C10: main() returns 0 exactly when the run completed without failure, and
\* then it has printed the status line with the output path; when a step
\* failed, whatever the failure, it returns 1 and has printed nothing.
C10_ExitCode ==
    pc = "returned" =>
        /\ exit \in { 0, 1 }
        /\ exit = 0 <=> (error = NoError /\ stage = Stages)
        /\ exit = 0 => (stdout = << SuccessLine(output_path) >> /\ output_path \in DOMAIN files)
        /\ exit = 1 => (error # NoError /\ stdout = << >>)

C10_Witness ==
    /\ pc = "returned"
    /\ exit = 1
    /\ error = "ValueError"
    /\ stdout = << >>

====
